---- MODULE Spec2Model ----
(***************************************************************************)
(* Model of main.py: the frame extraction orchestrator.                    *)
(*                                                                         *)
(* Strings are sequences of code points (str comparison and str.lower are  *)
(* defined on code points), a path is the sequence of its components below *)
(* the scanned folder, and an exception is the name of its class.          *)
(***************************************************************************)
EXTENDS Integers, Sequences, FiniteSets, TLC

\* Largest number of directory entries below the scanned folder.
MaxEntries == 3

----------------------------------------------------------------------------
(* str and pathlib helpers *)

\* str.lower() on one ASCII code point
LowerChar(c) == IF c >= 65 /\ c <= 90 THEN c + 32 ELSE c

\* str.lower()
Lower(s) == [i \in 1..Len(s) |-> LowerChar(s[i])]

\* str.rfind("."), 1-based; 0 when there is no dot
RFindDot(s) ==
    LET dots == {i \in 1..Len(s) : s[i] = 46}
    IN  IF dots = {} THEN 0 ELSE CHOOSE i \in dots : \A j \in dots : j <= i

\* PurePath.suffix of the final component: the part from the last dot on,
\* empty when the dot is the first or the last character
Suffix(name) ==
    LET i == RFindDot(name)
    IN  IF i > 1 /\ i < Len(name) THEN SubSeq(name, i, Len(name)) ELSE <<>>

\* PurePath.stem: the final component without its suffix
Stem(name) ==
    LET i == RFindDot(name)
    IN  IF i > 1 /\ i < Len(name) THEN SubSeq(name, 1, i - 1) ELSE name

\* PurePath.name
Name(parts) == parts[Len(parts)]

\* str.__lt__: order by code point, a proper prefix sorts first
RECURSIVE StrLess(_, _)
StrLess(a, b) ==
    IF b = <<>> THEN FALSE
    ELSE IF a = <<>> THEN TRUE
    ELSE IF a[1] # b[1] THEN a[1] < b[1]
    ELSE StrLess(Tail(a), Tail(b))

\* PurePath.__lt__: the lists of components are compared element by element
RECURSIVE PathLess(_, _)
PathLess(p, q) ==
    IF q = <<>> THEN FALSE
    ELSE IF p = <<>> THEN TRUE
    ELSE IF p[1] # q[1] THEN StrLess(p[1], q[1])
    ELSE PathLess(Tail(p), Tail(q))

\* sorted(): ascending by PurePath.__lt__
RECURSIVE sorted(_)
sorted(S) ==
    IF S = {} THEN <<>>
    ELSE LET m == CHOOSE x \in S : \A y \in S \ {x} : ~PathLess(y.parts, x.parts)
         IN  <<m>> \o sorted(S \ {m})

----------------------------------------------------------------------------
(* find_video_files *)

video_extensions ==
    { <<46,109,112,52>>,      \* .mp4
      <<46,109,111,118>>,     \* .mov
      <<46,97,118,105>>,      \* .avi
      <<46,109,107,118>>,     \* .mkv
      <<46,119,101,98,109>>,  \* .webm
      <<46,102,108,118>>,     \* .flv
      <<46,119,109,118>>,     \* .wmv
      <<46,109,52,118>>,      \* .m4v
      <<46,109,112,103>>,     \* .mpg
      <<46,109,112,101,103>>, \* .mpeg
      <<46,51,103,112>>,      \* .3gp
      <<46,109,50,116,115>>,  \* .m2ts
      <<46,109,116,115>>,     \* .mts
      <<46,116,115>>,         \* .ts
      <<46,118,111,98>>,      \* .vob
      <<46,102,52,118>>,      \* .f4v
      <<46,97,115,102>>,      \* .asf
      <<46,114,109>>,         \* .rm
      <<46,114,109,118,98>>,  \* .rmvb
      <<46,111,103,118>>,     \* .ogv
      <<46,109,120,102>>,     \* .mxf
      <<46,103,105,102>> }    \* .gif

\* Variant that compares the suffix without lower-casing it.
find_video_files_case(entries) ==
    sorted({f \in entries : f.is_file /\ Suffix(Name(f.parts)) \in video_extensions})

\* entries: what folder_path.rglob("*") yields
find_video_files(entries) ==
    sorted({f \in entries :
               f.is_file /\ Lower(Suffix(Name(f.parts))) \in video_extensions})

\* The directory trees the scan is run on: subsets of these entries.
File(parts) == [parts |-> parts, is_file |-> TRUE]
Dir(parts) == [parts |-> parts, is_file |-> FALSE]

Entries ==
    { File(<< <<97,46,109,112,52>> >>),            \* a.mp4
      File(<< <<97,46,77,79,86>> >>),              \* a.MOV
      File(<< <<115>>, <<97,46,109,112,52>> >>),   \* s/a.mp4
      File(<< <<115,45>>, <<98,46,109,107,118>> >>), \* s-/b.mkv
      File(<< <<66,46,103,105,102>> >>),           \* B.gif
      File(<< <<98,46,116,120,116>> >>),           \* b.txt
      File(<< <<98,46,106,112,103>> >>),           \* b.jpg
      File(<< <<46,109,112,52>> >>),               \* .mp4 (no suffix)
      Dir(<< <<99,46,109,112,52>> >>) }            \* c.mp4/ (a directory)

----------------------------------------------------------------------------
(* Exceptions and the except clauses *)

\* Classes derived from Exception among those the program can meet;
\* KeyboardInterrupt derives from BaseException only.
ExceptionClasses ==
    { "FileNotFoundError", "ValueError", "RuntimeError", "CalledProcessError",
      "IndexError", "ZeroDivisionError", "SyntaxError", "NameError", "OSError" }

\* except (subprocess.CalledProcessError, ValueError, IndexError) in _get_video_info
ProbeCaught == { "CalledProcessError", "ValueError", "IndexError" }

\* Variant: a bare except clause, which catches KeyboardInterrupt as well.
ExtractCaughtBare == ExceptionClasses \cup { "KeyboardInterrupt" }

\* except Exception in extract_frames
ExtractCaught == ExceptionClasses

\* except (FileNotFoundError, ValueError, RuntimeError) around one batch item
BatchCaught == { "FileNotFoundError", "ValueError", "RuntimeError" }

\* except (FileNotFoundError, ValueError, RuntimeError) at the end of main
MainCaught == { "FileNotFoundError", "ValueError", "RuntimeError" }

----------------------------------------------------------------------------
(* _get_video_info: parsing of the ffprobe output *)

\* One line of ffprobe output.  Numbers are held in tenths so that "12.5"
\* has a value; the ratios used divide exactly.
EmptyLine == [k |-> "empty"]                           \* ""
IntLine(n) == [k |-> "int", v |-> n]                   \* "640"
DecLine(t) == [k |-> "dec", v |-> t]                   \* "12.5" is DecLine(125)
RatioLine(n, d) == [k |-> "ratio", num |-> n, den |-> d] \* "30/1"
TruncLine == [k |-> "trunc"]                           \* "30/"
NALine == [k |-> "na"]                                 \* "N/A"
WordLine == [k |-> "word"]                             \* "abc"

\* "/" in s
HasSlash(l) == l.k \in {"ratio", "trunc", "na"}

\* float(s): the value in tenths, or the exception raised
Float(l) ==
    CASE l.k = "int" -> [exc |-> "none", v |-> 10 * l.v]
      [] l.k = "dec" -> [exc |-> "none", v |-> l.v]
      [] OTHER       -> [exc |-> "ValueError", v |-> 0]

\* int(s): the value, or the exception raised
Int_(l) ==
    CASE l.k = "int" -> [exc |-> "none", v |-> l.v]
      [] OTHER       -> [exc |-> "ValueError", v |-> 0]

\* eval(s) of a string that holds "/": the value in tenths, or the exception
Eval(l) ==
    CASE l.k = "ratio" /\ l.den # 0 -> [exc |-> "none", v |-> (10 * l.num) \div l.den]
      [] l.k = "ratio" /\ l.den = 0 -> [exc |-> "ZeroDivisionError", v |-> 0]
      [] l.k = "trunc"              -> [exc |-> "SyntaxError", v |-> 0]
      [] l.k = "na"                 -> [exc |-> "NameError", v |-> 0]
      [] OTHER                      -> Float(l)

\* result.stdout.strip().split("\n"): leading and trailing blank lines go,
\* and the empty string splits into one empty line
RECURSIVE LStrip(_)
LStrip(ls) ==
    IF ls # <<>> /\ ls[1] = EmptyLine THEN LStrip(Tail(ls)) ELSE ls

RECURSIVE RStrip(_)
RStrip(ls) ==
    IF ls # <<>> /\ ls[Len(ls)] = EmptyLine
    THEN RStrip(SubSeq(ls, 1, Len(ls) - 1)) ELSE ls

StripSplit(out) ==
    LET t == RStrip(LStrip(out))
    IN  IF t = <<>> THEN <<EmptyLine>> ELSE t

ZeroInfo == [duration |-> 0, fps |-> 0, width |-> 0, height |-> 0]

\* The body of the try block once ffprobe has exited with status rc and
\* printed out: the first exception raised, in evaluation order, and the
\* record built when there is none.
ParseInfo(rc, out) ==
    LET lines == StripSplit(out)
        dur == IF lines[1] # EmptyLine THEN Float(lines[1])
               ELSE [exc |-> "none", v |-> 0]
        fps == IF HasSlash(lines[2]) THEN Eval(lines[2]) ELSE Float(lines[2])
        wid == IF lines[3] # EmptyLine THEN Int_(lines[3])
               ELSE [exc |-> "none", v |-> 0]
        hei == IF lines[4] # EmptyLine THEN Int_(lines[4])
               ELSE [exc |-> "none", v |-> 0]
    IN  IF rc # 0 THEN [exc |-> "CalledProcessError", info |-> ZeroInfo]
        ELSE IF Len(lines) < 4 THEN [exc |-> "none", info |-> ZeroInfo]
        ELSE IF dur.exc # "none" THEN [exc |-> dur.exc, info |-> ZeroInfo]
        ELSE IF fps.exc # "none" THEN [exc |-> fps.exc, info |-> ZeroInfo]
        ELSE IF wid.exc # "none" THEN [exc |-> wid.exc, info |-> ZeroInfo]
        ELSE IF hei.exc # "none" THEN [exc |-> hei.exc, info |-> ZeroInfo]
        ELSE [exc |-> "none",
              info |-> [duration |-> dur.v, fps |-> fps.v,
                        width |-> wid.v, height |-> hei.v]]

\* _get_video_info after ffprobe returned: exc is the exception that leaves
\* the method ("none" when it returns), info the record returned.
_get_video_info(rc, out) ==
    LET r == ParseInfo(rc, out)
    IN  IF r.exc \in ProbeCaught THEN [exc |-> "none", info |-> ZeroInfo]
        ELSE r

\* What ffprobe may print.
DurLines == { DecLine(125), NALine, EmptyLine }
FpsLines == { RatioLine(30, 1), RatioLine(0, 0), TruncLine, NALine,
              IntLine(30), WordLine, EmptyLine }
WidthLines == { IntLine(640), DecLine(6405), EmptyLine }
HeightLines == { IntLine(480), EmptyLine }

ProbeOutputs ==
    { <<d, f, IntLine(640), IntLine(480)>> : d \in DurLines, f \in FpsLines }
    \cup { << DecLine(125), RatioLine(30, 1), w, h >> :
              w \in WidthLines, h \in HeightLines }
    \cup { <<>>,
           << DecLine(125), RatioLine(30, 1), EmptyLine, IntLine(480), IntLine(1) >>,
           << IntLine(640), IntLine(480), RatioLine(30, 1), DecLine(125) >> }

----------------------------------------------------------------------------
(* The run of main() *)

VARIABLES
    mode,           \* what args.input is: "dir", "file" or "missing"
    fs,             \* the entries below the input folder
    quiet,          \* args.quiet
    pc,             \* the statement main() is at
    video_files,    \* the list find_video_files returned
    idx,            \* the batch item being processed (1-based)
    items,          \* per video: what the run did with it
    failed_videos,  \* the list of failed file names
    running,        \* the external processes that were spawned and not awaited
    video_info,     \* the record _get_video_info returned to extract_frames
    successful,     \* the success count of the summary, -1 when not computed
    exit_status,    \* the process exit status, -1 while running
    uncaught        \* the exception that left main() unhandled, or "none"

vars == << mode, fs, quiet, pc, video_files, idx, items, failed_videos,
           running, video_info, successful, exit_status, uncaught >>

NoInfo == [duration |-> -1, fps |-> -1, width |-> -1, height |-> -1]

\* output_base
OutputBase == << <<111,117,116>> >>          \* out

\* args.input in single-file mode
InputFile == << <<99,108,105,112,46,109,112,52>> >>   \* clip.mp4

Item(name, outdir) ==
    [ name |-> name, outdir |-> outdir, status |-> "Pending",
      exists |-> FALSE, is_file |-> FALSE, ffmpeg_ok |-> FALSE,
      mkdir |-> FALSE, probe |-> "none", launches |-> 0 ]

\* video_output_dir = output_base / video_file.stem
video_output_dir(parts) == OutputBase \o << Stem(Name(parts)) >>

Terminal == { "Succeeded", "Failed" }

\* The statements inside "try:" of one batch item, or of the single file.
ItemPcs == { "validate", "version_wait", "mkdir", "probe", "probe_wait",
             "extract", "extract_wait" }

Init ==
    /\ mode \in { "dir", "file", "missing" }
    /\ fs \in { S \in SUBSET Entries : Cardinality(S) <= MaxEntries }
    /\ mode # "dir" => fs = {}
    /\ quiet \in BOOLEAN
    /\ pc = "start"
    /\ video_files = <<>>
    /\ idx = 0
    /\ items = <<>>
    /\ failed_videos = <<>>
    /\ running = {}
    /\ video_info = NoInfo
    /\ successful = -1
    /\ exit_status = -1
    /\ uncaught = "none"

\* Variant that tolerates one failure.
BatchExitOffByOne(failed) == IF Len(failed) > 1 THEN 1 ELSE 0

\* sys.exit(0 if not failed_videos else 1)
BatchExit(failed) == IF failed = <<>> THEN 0 ELSE 1

\* sys.exit(0 if success else 1)
SingleExit(success) == IF success THEN 0 ELSE 1

\* Variant that drops the failure.
RecordFailureDropped(failed, name) == failed

\* failed_videos.append(video_file.name)
RecordFailure(failed, name) == Append(failed, name)

\* An exception e leaves main(): the two except clauses at its end, or the
\* interpreter's traceback and exit status 1.
LeaveMain(e) ==
    /\ pc' = "done"
    /\ exit_status' = IF e \in MainCaught THEN 1
                      ELSE IF e = "KeyboardInterrupt" THEN 130
                      ELSE 1
    /\ uncaught' = IF e \in MainCaught \cup { "KeyboardInterrupt" }
                   THEN "none" ELSE e

\* An exception e leaves the constructor or extract_frames of the current
\* item, whose record is by then its[idx].
Raise(e, its) ==
    IF mode = "dir" /\ e \in BatchCaught
    THEN /\ items' = [its EXCEPT ![idx].status = "Failed"]
         /\ failed_videos' = RecordFailure(failed_videos, its[idx].name)
         /\ idx' = idx + 1
         /\ pc' = "loop"
         /\ video_info' = NoInfo
         /\ UNCHANGED << exit_status, uncaught >>
    ELSE /\ items' = [its EXCEPT ![idx].status =
                         IF e \in MainCaught THEN "Failed" ELSE @]
         /\ LeaveMain(e)
         /\ UNCHANGED << failed_videos, idx, video_info >>

\* extract_frames returned success.
Return(success, its) ==
    /\ items' = [its EXCEPT ![idx].status =
                    IF success THEN "Succeeded" ELSE "Failed"]
    /\ video_info' = NoInfo
    /\ IF mode = "dir"
       THEN /\ failed_videos' = IF success THEN failed_videos
                                ELSE RecordFailure(failed_videos, its[idx].name)
            /\ idx' = idx + 1
            /\ pc' = "loop"
            /\ UNCHANGED << exit_status, uncaught >>
       ELSE /\ exit_status' = SingleExit(success)
            /\ pc' = "done"
            /\ UNCHANGED << failed_videos, idx, uncaught >>

\* main(), input_path.is_dir(): the scan
ScanFolder ==
    /\ pc = "start" /\ mode = "dir"
    /\ video_files' = find_video_files(fs)
    /\ IF video_files' = <<>>
       THEN /\ pc' = "done" /\ exit_status' = 1
            /\ UNCHANGED << items, idx >>
       ELSE /\ items' = [i \in 1..Len(video_files') |->
                            Item(Name(video_files'[i].parts), <<>>)]
            /\ idx' = 1
            /\ pc' = "loop"
            /\ UNCHANGED exit_status
    /\ UNCHANGED << mode, fs, quiet, failed_videos, running, video_info,
                    successful, uncaught >>

\* main(), input_path.is_file()
SingleFile ==
    /\ pc = "start" /\ mode = "file"
    /\ items' = << [Item(Name(InputFile), OutputBase)
                        EXCEPT !.status = "Validating"] >>
    /\ idx' = 1
    /\ pc' = "validate"
    /\ UNCHANGED << mode, fs, quiet, video_files, failed_videos, running,
                    video_info, successful, exit_status, uncaught >>

\* main(), neither a folder nor a file
InputMissing ==
    /\ pc = "start" /\ mode = "missing"
    /\ LeaveMain("FileNotFoundError")
    /\ UNCHANGED << mode, fs, quiet, video_files, idx, items, failed_videos,
                    running, video_info, successful >>

\* The head of the for loop: the next video and its output directory.
NextItem ==
    /\ pc = "loop" /\ idx <= Len(video_files)
    /\ items' = [items EXCEPT ![idx].status = "Validating",
                              ![idx].outdir = video_output_dir(video_files[idx].parts)]
    /\ pc' = "validate"
    /\ UNCHANGED << mode, fs, quiet, video_files, idx, failed_videos, running,
                    video_info, successful, exit_status, uncaught >>

\* Variant that goes on to the ffmpeg check whatever the path is.
_validate_inputs_nopath(exists, is_file, present) ==
    IF ~present THEN "RuntimeError" ELSE "none"

\* _validate_inputs up to the launch of "ffmpeg -version": the exception
\* raised, "none" when the version check was launched.
_validate_inputs(exists, is_file, present) ==
    IF ~exists THEN "FileNotFoundError"
    ELSE IF ~is_file THEN "ValueError"
    ELSE IF ~present THEN "RuntimeError"
    ELSE "none"

\* Variant that does not wait for the process.
communicate_nowait(procs, p) == procs

\* subprocess.run / Popen.communicate: the process p was awaited.
communicate(procs, p) == procs \ { p }

\* __init__, _validate_inputs: the two path checks and the launch of
\* "ffmpeg -version".  exists and is_file are what the file system answers
\* at that moment, present whether the ffmpeg binary can be started.
ValidateInputs ==
    /\ pc = "validate"
    /\ \E exists \in BOOLEAN, is_file \in BOOLEAN, present \in BOOLEAN :
          /\ is_file => exists
          /\ LET e == _validate_inputs(exists, is_file, present)
                 its == [items EXCEPT ![idx].exists = exists,
                                      ![idx].is_file = is_file]
             IN  IF e = "none"
                 THEN /\ running' = running \cup { << "ffmpeg -version", idx >> }
                      /\ items' = its
                      /\ pc' = "version_wait"
                      /\ UNCHANGED << idx, failed_videos, video_info,
                                      exit_status, uncaught >>
                 ELSE /\ Raise(e, its)
                      /\ UNCHANGED running
    /\ UNCHANGED << mode, fs, quiet, video_files, successful >>

\* _validate_inputs: "ffmpeg -version" exited with status rc (check=True).
VersionReturn ==
    /\ pc = "version_wait"
    /\ running' = communicate(running, << "ffmpeg -version", idx >>)
    /\ \E rc \in { 0, 1 } :
          IF rc = 0
          THEN /\ items' = [items EXCEPT ![idx].ffmpeg_ok = TRUE]
               /\ pc' = "mkdir"
               /\ UNCHANGED << idx, failed_videos, video_info, exit_status,
                               uncaught >>
          ELSE Raise("RuntimeError", items)
    /\ UNCHANGED << mode, fs, quiet, video_files, successful >>

\* _create_output_directory: mkdir(parents=True, exist_ok=True), which
\* raises an OSError when the directory cannot be made.
CreateOutputDirectory ==
    /\ pc = "mkdir"
    /\ \E made \in BOOLEAN :
          IF made
          THEN /\ items' = [items EXCEPT ![idx].mkdir = TRUE]
               /\ pc' = "probe"
               /\ UNCHANGED << idx, failed_videos, video_info, exit_status,
                               uncaught >>
          ELSE Raise("OSError", items)
    /\ UNCHANGED << mode, fs, quiet, video_files, running, successful >>

\* extract_frames, _get_video_info: the launch of ffprobe.  When the binary
\* cannot be started subprocess.run raises FileNotFoundError.
ProbeLaunch ==
    /\ pc = "probe"
    /\ \E present \in BOOLEAN :
          IF present
          THEN /\ running' = running \cup { << "ffprobe", idx >> }
               /\ items' = [items EXCEPT ![idx].status = "Probing"]
               /\ pc' = "probe_wait"
               /\ UNCHANGED << idx, failed_videos, video_info, exit_status,
                               uncaught >>
          ELSE /\ UNCHANGED running
               /\ IF "FileNotFoundError" \in ProbeCaught
                  THEN /\ items' = [items EXCEPT ![idx].status = "Probing",
                                                 ![idx].probe = "returned"]
                       /\ video_info' = ZeroInfo
                       /\ pc' = "extract"
                       /\ UNCHANGED << idx, failed_videos, exit_status, uncaught >>
                  ELSE Raise("FileNotFoundError",
                             [items EXCEPT ![idx].status = "Probing",
                                           ![idx].probe = "raised"])
    /\ UNCHANGED << mode, fs, quiet, video_files, successful >>

\* _get_video_info: ffprobe exited with status rc having printed out.
ProbeReturn ==
    /\ pc = "probe_wait"
    /\ running' = communicate(running, << "ffprobe", idx >>)
    /\ \E rc \in { 0, 1 }, out \in ProbeOutputs :
          LET r == _get_video_info(rc, out)
          IN  IF r.exc = "none"
              THEN /\ video_info' = r.info
                   /\ items' = [items EXCEPT ![idx].probe = "returned"]
                   /\ pc' = "extract"
                   /\ UNCHANGED << idx, failed_videos, exit_status, uncaught >>
              ELSE Raise(r.exc, [items EXCEPT ![idx].probe = "raised"])
    /\ UNCHANGED << mode, fs, quiet, video_files, successful >>

\* extract_frames: subprocess.Popen(cmd), inside "try:".  Popen raises an
\* OSError when ffmpeg cannot be started.
ExtractLaunch ==
    /\ pc = "extract"
    /\ \E spawned \in BOOLEAN :
          IF spawned
          THEN /\ running' = running \cup { << "ffmpeg", idx >> }
               /\ items' = [items EXCEPT ![idx].status = "Extracting",
                                         ![idx].launches = @ + 1]
               /\ pc' = "extract_wait"
               /\ UNCHANGED << idx, failed_videos, video_info, exit_status,
                               uncaught >>
          ELSE /\ UNCHANGED running
               /\ IF "OSError" \in ExtractCaught
                  THEN Return(FALSE, items)
                  ELSE Raise("OSError", items)
    /\ UNCHANGED << mode, fs, quiet, video_files, successful >>

\* extract_frames: process.communicate() returned, ffmpeg exited with rc;
\* on status 0 the frames are counted and True is returned.
ExtractReturn ==
    /\ pc = "extract_wait"
    /\ running' = communicate(running, << "ffmpeg", idx >>)
    /\ \E rc \in { 0, 1 } : Return(rc = 0, items)
    /\ UNCHANGED << mode, fs, quiet, video_files, successful >>

\* main(): the for loop is over; the summary and sys.exit.
Summary ==
    /\ pc = "loop" /\ idx > Len(video_files)
    /\ successful' = IF ~quiet THEN Len(video_files) - Len(failed_videos)
                     ELSE successful
    /\ exit_status' = BatchExit(failed_videos)
    /\ pc' = "done"
    /\ UNCHANGED << mode, fs, quiet, video_files, idx, items, failed_videos,
                    running, video_info, uncaught >>

\* SIGINT: KeyboardInterrupt is raised at the statement main() is at.
\* subprocess.run kills the child it waits for before the exception goes
\* on; Popen.communicate leaves ffmpeg to its own handling of the signal.
Interrupt ==
    /\ pc # "done"
    /\ running' = { p \in running : p[1] = "ffmpeg" }
    /\ IF pc \in { "probe", "probe_wait" } /\ "KeyboardInterrupt" \in ProbeCaught
       THEN /\ video_info' = ZeroInfo
            /\ items' = [items EXCEPT ![idx].probe = "returned"]
            /\ pc' = "extract"
            /\ UNCHANGED << idx, failed_videos, exit_status, uncaught >>
       ELSE IF pc \in { "extract", "extract_wait" }
               /\ "KeyboardInterrupt" \in ExtractCaught
       THEN Return(FALSE, items)
       ELSE IF pc \in ItemPcs
       THEN Raise("KeyboardInterrupt", items)
       ELSE /\ LeaveMain("KeyboardInterrupt")
            /\ UNCHANGED << idx, items, failed_videos, video_info >>
    /\ UNCHANGED << mode, fs, quiet, video_files, successful >>

Next ==
    \/ ScanFolder
    \/ SingleFile
    \/ InputMissing
    \/ NextItem
    \/ ValidateInputs
    \/ VersionReturn
    \/ CreateOutputDirectory
    \/ ProbeLaunch
    \/ ProbeReturn
    \/ ExtractLaunch
    \/ ExtractReturn
    \/ Summary
    \/ Interrupt

Spec == Init /\ [][Next]_vars

----------------------------------------------------------------------------
(* Properties *)

\* The for loop ran to its end and the summary was emitted.
SummaryReached ==
    /\ mode = "dir" /\ video_files # <<>>
    /\ pc = "done" /\ idx = Len(video_files) + 1 /\ exit_status # 130

\* find_video_files has returned.
Scanned == mode = "dir" /\ (idx >= 1 \/ (pc = "done" /\ exit_status = 1))

\* The names of the items that failed, in processing order.
FailedNames ==
    LET F == SelectSeq(items, LAMBDA it : it.status = "Failed")
    IN  [i \in 1..Len(F) |-> F[i].name]

NumSucceeded == Cardinality({ i \in DOMAIN items : items[i].status = "Succeeded" })

\* name ends with the extension ext, compared case-insensitively, and has
\* something before it.
HasExtension(name, ext) ==
    /\ Len(name) > Len(ext)
    /\ Lower(SubSeq(name, Len(name) - Len(ext) + 1, Len(name))) = ext

\* C1: in folder mode every way one file's pipeline can fail is recorded
\* against that file and the loop goes on: a run that was not interrupted
\* ends behind the summary with every enumerated file attempted (each item
\* Succeeded or Failed) and no exception left unhandled.
C1_BatchAlwaysReachesSummary ==
    (mode = "dir" /\ video_files # <<>> /\ pc = "done" /\ exit_status # 130)
        => /\ idx = Len(video_files) + 1
           /\ uncaught = "none"
           /\ \A i \in DOMAIN items : items[i].status \in Terminal

\* C2: a probe failure never prevents extraction: _get_video_info never
\* raises, whatever ffprobe did, and once the probe step of an item was
\* entered and the run ended without an interrupt, that item went on to the
\* extraction step.
C2_ProbeNeverPreventsExtraction ==
    \A i \in DOMAIN items :
        /\ items[i].probe # "raised"
        /\ (pc = "done" /\ exit_status # 130) => items[i].status # "Probing"

\* C3: the exit status is 0 exactly when every processed video succeeded and
\* 1 on any failure: single file 0 iff extract_frames returned True; folder
\* mode 1 when no video was found or an item failed, and behind the summary
\* 0 iff the failed list is empty; for both values of --quiet.
C3_ExitStatus ==
    /\ pc # "done" => exit_status = -1
    /\ (pc = "done" /\ exit_status # 130) =>
          /\ exit_status \in { 0, 1 }
          /\ exit_status = 0 <=>
                (items # <<>> /\ \A i \in DOMAIN items : items[i].status = "Succeeded")
          /\ (mode = "dir" /\ video_files = <<>>) => exit_status = 1
          /\ (mode = "dir" /\ failed_videos # <<>>) => exit_status = 1
          /\ SummaryReached => (exit_status = 0 <=> failed_videos = <<>>)

\* A batch of two or more, run with --quiet, where one video succeeded and
\* one failed, ended with status 1.
C3_Witness ==
    /\ SummaryReached /\ quiet /\ exit_status = 1
    /\ Len(failed_videos) = 1
    /\ \E i \in DOMAIN items : items[i].status = "Succeeded"

\* C4: an input path that does not exist gives exit status 1 and no output
\* directory: mkdir is done for a video only after the existence check, the
\* is-a-file check and the ffmpeg version check passed, and no external
\* process is launched for a path that is absent or not a file.
C4_NoOutputDirectoryBeforeValidation ==
    /\ \A i \in DOMAIN items :
          /\ items[i].mkdir =>
                (items[i].exists /\ items[i].is_file /\ items[i].ffmpeg_ok)
          /\ (items[i].probe # "none" \/ items[i].launches > 0) => items[i].mkdir
    /\ \A p \in running : items[p[2]].exists /\ items[p[2]].is_file
    /\ (mode = "missing" /\ pc = "done" /\ exit_status # 130) =>
          (exit_status = 1 /\ uncaught = "none" /\ items = <<>> /\ running = {})

\* The input path was absent: the run ended with status 1 and nothing made.
C4_Witness ==
    /\ mode = "missing" /\ pc = "done" /\ exit_status = 1
    /\ items = <<>> /\ running = {}

\* C5: the failed list holds exactly one entry, the file's name, for each
\* item that failed and none for an item that succeeded, in processing
\* order; the success count of the summary is the number of items that
\* succeeded, so that success count + failed count = total count.
C5_FailedListAndCounts ==
    /\ mode = "dir" => failed_videos = FailedNames
    /\ SummaryReached =>
          /\ Len(failed_videos) + NumSucceeded = Len(video_files)
          /\ ~quiet => /\ successful = NumSucceeded
                       /\ successful + Len(failed_videos) = Len(video_files)

\* A batch ended behind the summary with failures and successes.
C5_Witness ==
    /\ SummaryReached /\ ~quiet
    /\ Len(failed_videos) >= 1 /\ successful >= 1

\* C6: find_video_files returns exactly the regular files below the folder
\* whose extension, compared case-insensitively, is in the allow-list,
\* none other and none missing, in strictly ascending path order (hence
\* without duplicates).
C6_FindVideoFiles ==
    Scanned =>
        /\ { video_files[i] : i \in DOMAIN video_files } =
              { f \in fs : /\ f.is_file
                           /\ \E ext \in video_extensions :
                                 HasExtension(Name(f.parts), ext) }
        /\ \A i, j \in DOMAIN video_files :
              i < j => PathLess(video_files[i].parts, video_files[j].parts)

\* The scan of a folder holding a.mp4, a.MOV and b.txt returned two files.
C6_Witness ==
    /\ Scanned
    /\ File(<< <<97,46,109,112,52>> >>) \in fs
    /\ File(<< <<97,46,77,79,86>> >>) \in fs
    /\ File(<< <<98,46,116,120,116>> >>) \in fs
    /\ Len(video_files) = 2

\* C7: a user interrupt at any point of a run ends the whole run with exit
\* status 130: it is not recorded as a failure of the item, no later item is
\* started, and the run stays ended with status 130.
C7_InterruptAbortsRun ==
    /\ [][Interrupt =>
            /\ pc' = "done" /\ exit_status' = 130
            /\ failed_videos' = failed_videos
            /\ idx' = idx
            /\ \A i \in DOMAIN items : items'[i].status = items[i].status]_vars
    /\ [][exit_status = 130 => UNCHANGED vars]_vars
    /\ [](exit_status = 130 => pc = "done")

\* A batch was interrupted during the extraction of its second video.
C7_Witness ==
    /\ mode = "dir" /\ pc = "done" /\ exit_status = 130
    /\ idx = 2 /\ Len(items) >= 3
    /\ items[1].status = "Succeeded"
    /\ items[2].status = "Extracting"
    /\ items[3].status = "Pending"
    /\ failed_videos = <<>>

\* C8: each batch item goes Pending, Validating, probe, Extracting, then
\* Succeeded or Failed, without retries: Extracting only after validation
\* passed and the output directory was made, ffmpeg launched at most once,
\* a Succeeded or Failed item never changes again, and every item reaches
\* Succeeded or Failed (stated for a run that ended without an interrupt).
C8_ItemStateMachine ==
    /\ [](\A i \in DOMAIN items :
            /\ items[i].status = "Extracting" =>
                  (items[i].exists /\ items[i].is_file /\ items[i].ffmpeg_ok
                   /\ items[i].mkdir)
            /\ items[i].launches <= 1
            /\ (mode = "dir" /\ pc = "done" /\ exit_status # 130) =>
                  items[i].status \in Terminal)
    /\ [][\A i \in DOMAIN items :
            items[i].status \in Terminal => items'[i] = items[i]]_vars

\* C9: control flow is strictly sequential: at most one external process
\* runs at a time, it belongs to the current item and main() is waiting for
\* it, and the items are started one at a time in the sorted order of
\* find_video_files, item k+1 only after item k is Succeeded or Failed.
C9_StrictlySequential ==
    /\ Cardinality(running) <= 1
    /\ \A p \in running :
          /\ p[2] = idx
          /\ \/ pc = "version_wait" /\ p[1] = "ffmpeg -version"
             \/ pc = "probe_wait" /\ p[1] = "ffprobe"
             \/ pc = "extract_wait" /\ p[1] = "ffmpeg"
             \/ pc = "done" /\ p[1] = "ffmpeg" /\ exit_status = 130
    /\ \A k \in DOMAIN items :
          /\ (k > 1 /\ items[k].status # "Pending") =>
                items[k - 1].status \in Terminal
          /\ (k < idx /\ pc # "done") => items[k].status \in Terminal
          /\ k > idx => items[k].status = "Pending"
    /\ mode = "dir" =>
          \A i, j \in DOMAIN video_files :
              i < j => PathLess(video_files[i].parts, video_files[j].parts)

\* ffmpeg runs for the second video of a batch, the first being finished.
C9_Witness ==
    /\ mode = "dir" /\ idx = 2 /\ pc = "extract_wait"
    /\ running = { << "ffmpeg", 2 >> }
    /\ items[1].status \in Terminal

\* C10: in a folder-mode run any two distinct enumerated video files are
\* given distinct output subdirectories, also when they share a base name
\* and differ in extension or in the subfolder they were found in.
C10_DistinctOutputDirectories ==
    mode = "dir" =>
        \A i, j \in DOMAIN video_files :
            i # j => video_output_dir(video_files[i].parts)
                        # video_output_dir(video_files[j].parts)

====
